---- MODULE Spec2Model ----
(***************************************************************************)
(* Growth-marketing audit pipeline: scrape -> prompt-and-parse -> render.   *)
(* Model of src/audit_mvp.py (analyze, build_pdf, generate_audit_report,    *)
(* main) and of the "Generate Audit" handler of src/app.py.                 *)
(*                                                                         *)
(* Python strings are sequences of one-character strings.  Values that     *)
(* json.loads produces are tagged records (Str, Num, None, Bool, List,     *)
(* Dict); a Dict keeps its items as a sequence in insertion order, as a    *)
(* Python dict does.  A call either returns a value or raises:             *)
(* Returned(v) / Raised(e).                                                *)
(***************************************************************************)
EXTENDS Integers, Sequences, FiniteSets, TLC

(***************************************************************************)
(* Bounds of the model.                                                    *)
(***************************************************************************)
\* longest run of prose placed before, and after, the body of a model reply
MaxProse == 1
\* number of browser sessions of the interactive surface in the race model
NumSessions == 2

(***************************************************************************)
(* Characters and Python values.                                           *)
(***************************************************************************)
DQ == "\""
NL == "\n"
\* the one character U+2013 of app.py's section heading
EN_DASH == "u2013"
LBRACE == "{"
RBRACE == "}"

Str(s) == [t |-> "str", s |-> s]
Num(n) == [t |-> "int", n |-> n]
None == [t |-> "None"]
Bool(b) == [t |-> "bool", b |-> b]
List(xs) == [t |-> "list", xs |-> xs]
Dict(items) == [t |-> "dict", items |-> items]
Item(k, v) == [k |-> k, v |-> v]

Returned(v) == [exc |-> "None", val |-> v]
Raised(e) == [exc |-> e]

\* dict keys, in insertion order
Keys(d) == [i \in 1..Len(d.items) |-> d.items[i].k]
KeySet(d) == {d.items[i].k : i \in 1..Len(d.items)}
HasKey(d, k) == k \in KeySet(d)
Lookup(d, k) == d.items[CHOOSE i \in 1..Len(d.items) : d.items[i].k = k].v
\* dict.get(k, default)
DictGet(d, k, default) == IF HasKey(d, k) THEN Lookup(d, k) ELSE default
\* d[k] = v: a key already present keeps its position and takes the new value
DictSet(items, k, v) ==
    IF \E i \in 1..Len(items) : items[i].k = k
    THEN [i \in 1..Len(items) |-> IF items[i].k = k THEN Item(k, v) ELSE items[i]]
    ELSE Append(items, Item(k, v))

\* Python truthiness, as `if quick_wins:` evaluates it
Truthy(v) ==
    CASE v.t = "str" -> Len(v.s) > 0
      [] v.t = "int" -> v.n # 0
      [] v.t = "None" -> FALSE
      [] v.t = "bool" -> v.b
      [] v.t = "list" -> Len(v.xs) > 0
      [] v.t = "dict" -> Len(v.items) > 0

(***************************************************************************)
(* Program string constants.                                               *)
(***************************************************************************)
K_error == <<"e","r","r","o","r">>
K_raw == <<"r","a","w">>
K_grade == <<"g","r","a","d","e">>
K_reasoning == <<"r","e","a","s","o","n","i","n","g">>
K_quick_wins == <<"q","u","i","c","k","_","w","i","n","s">>
K_Brand == <<"B","r","a","n","d">>
K_Content == <<"C","o","n","t","e","n","t">>
K_Website == <<"W","e","b","s","i","t","e">>
K_Marketing == <<"M","a","r","k","e","t","i","n","g">>
RubricKeys == {K_Brand, K_Content, K_Website, K_Marketing}
S_NA == <<"N","/","A">>
S_CouldNotParse ==
    <<"C","o","u","l","d"," ","n","o","t"," ","p","a","r","s","e"," ","J","S","O","N">>
S_NoReasoning ==
    <<"N","o"," ","r","e","a","s","o","n","i","n","g"," ",
      "a","v","a","i","l","a","b","l","e",".">>

(***************************************************************************)
(* re.search(r"(\{.*\})", raw, re.DOTALL): the leftmost "{" from which a    *)
(* match exists, then, greedily, everything up to the last "}" of the text *)
(* ("." matches line breaks under DOTALL).                                 *)
(***************************************************************************)
Positions(s, c) == {i \in 1..Len(s) : s[i] = c}
Min(S) == CHOOSE x \in S : \A y \in S : x <= y
Max(S) == CHOOSE x \in S : \A y \in S : x >= y

\* variant: the lazy pattern \{.*?\}, which stops at the first "}"
re_search_lazy(raw) ==
    LET opens == Positions(raw, LBRACE)
        closes == Positions(raw, RBRACE)
    IN  IF opens = {} \/ closes = {} \/ Max(closes) < Min(opens)
        THEN [found |-> FALSE]
        ELSE [found |-> TRUE,
              group |-> SubSeq(raw, Min(opens), Min({c \in closes : c > Min(opens)}))]

NoMatch == [found |-> FALSE]
re_search(raw) ==
    LET opens == Positions(raw, LBRACE)
        closes == Positions(raw, RBRACE)
    IN  IF opens = {} \/ closes = {} \/ Max(closes) < Min(opens)
        THEN NoMatch
        ELSE [found |-> TRUE, group |-> SubSeq(raw, Min(opens), Max(closes))]

(***************************************************************************)
(* json.loads (the standard decoder, strict): whitespace, objects, arrays, *)
(* strings, integers and the literals null, true, false.  Fractions,       *)
(* exponents, signs and \u escapes are outside the alphabet of the replies *)
(* of this model.                                                          *)
(***************************************************************************)
Digits == <<"0","1","2","3","4","5","6","7","8","9">>
IsDigit(c) == \E k \in 1..10 : Digits[k] = c
DigitVal(c) == (CHOOSE k \in 1..10 : Digits[k] = c) - 1
IsWs(c) == c \in {" ", "\t", "\n", "\r"}
L_null == <<"n","u","l","l">>
L_true == <<"t","r","u","e">>
L_false == <<"f","a","l","s","e">>

Fail == [ok |-> FALSE]
Ok(v, p) == [ok |-> TRUE, val |-> v, pos |-> p]
MatchAt(s, i, lit) == i + Len(lit) - 1 <= Len(s) /\ SubSeq(s, i, i + Len(lit) - 1) = lit

RECURSIVE SkipWs(_, _)
SkipWs(s, i) == IF i <= Len(s) /\ IsWs(s[i]) THEN SkipWs(s, i + 1) ELSE i

\* the characters of a string literal, from the index after its opening quote
RECURSIVE scanstring(_, _, _)
scanstring(s, i, acc) ==
    IF i > Len(s) THEN Fail
    ELSE IF s[i] = DQ THEN Ok(acc, i + 1)
    ELSE IF s[i] \in {"\n", "\t", "\r"} THEN Fail
    ELSE IF s[i] = "\\"
         THEN IF i + 1 <= Len(s) /\ s[i + 1] \in {DQ, "\\", "/"}
              THEN scanstring(s, i + 2, Append(acc, s[i + 1]))
              ELSE Fail
    ELSE scanstring(s, i + 1, Append(acc, s[i]))

RECURSIVE scannumber(_, _, _)
scannumber(s, i, n) ==
    IF i <= Len(s) /\ IsDigit(s[i])
    THEN scannumber(s, i + 1, 10 * n + DigitVal(s[i]))
    ELSE Ok(Num(n), i)

RECURSIVE scan_once(_, _)
RECURSIVE JSONObject(_, _, _)
RECURSIVE JSONArray(_, _, _)

scan_once(s, i) ==
    IF i > Len(s) THEN Fail
    ELSE IF s[i] = DQ
         THEN LET r == scanstring(s, i + 1, <<>>)
              IN  IF r.ok THEN Ok(Str(r.val), r.pos) ELSE Fail
    ELSE IF s[i] = LBRACE
         THEN LET j == SkipWs(s, i + 1)
              IN  IF j <= Len(s) /\ s[j] = RBRACE
                  THEN Ok(Dict(<<>>), j + 1)
                  ELSE JSONObject(s, j, <<>>)
    ELSE IF s[i] = "["
         THEN LET j == SkipWs(s, i + 1)
              IN  IF j <= Len(s) /\ s[j] = "]"
                  THEN Ok(List(<<>>), j + 1)
                  ELSE JSONArray(s, j, <<>>)
    ELSE IF MatchAt(s, i, L_null) THEN Ok(None, i + 4)
    ELSE IF MatchAt(s, i, L_true) THEN Ok(Bool(TRUE), i + 4)
    ELSE IF MatchAt(s, i, L_false) THEN Ok(Bool(FALSE), i + 5)
    ELSE IF s[i] = "0" THEN Ok(Num(0), i + 1)
    ELSE IF IsDigit(s[i]) THEN scannumber(s, i, 0)
    ELSE Fail

\* the members of an object, from the index where a key's quote is expected
JSONObject(s, j, items) ==
    IF j > Len(s) \/ s[j] # DQ THEN Fail
    ELSE LET k == scanstring(s, j + 1, <<>>)
         IN  IF ~k.ok THEN Fail
             ELSE LET c == SkipWs(s, k.pos)
                  IN  IF c > Len(s) \/ s[c] # ":" THEN Fail
                      ELSE LET v == scan_once(s, SkipWs(s, c + 1))
                           IN  IF ~v.ok THEN Fail
                               ELSE LET e == SkipWs(s, v.pos)
                                        items2 == DictSet(items, k.val, v.val)
                                    IN  IF e > Len(s) THEN Fail
                                        ELSE IF s[e] = RBRACE THEN Ok(Dict(items2), e + 1)
                                        ELSE IF s[e] = ","
                                             THEN JSONObject(s, SkipWs(s, e + 1), items2)
                                        ELSE Fail

\* the elements of an array, from the index where a value is expected
JSONArray(s, j, xs) ==
    LET v == scan_once(s, j)
    IN  IF ~v.ok THEN Fail
        ELSE LET e == SkipWs(s, v.pos)
                 xs2 == Append(xs, v.val)
             IN  IF e > Len(s) THEN Fail
                 ELSE IF s[e] = "]" THEN Ok(List(xs2), e + 1)
                 ELSE IF s[e] = "," THEN JSONArray(s, SkipWs(s, e + 1), xs2)
                 ELSE Fail

json_loads(s) ==
    LET r == scan_once(s, SkipWs(s, 1))
    IN  IF ~r.ok THEN Raised("JSONDecodeError")
        ELSE IF SkipWs(s, r.pos) # Len(s) + 1 THEN Raised("JSONDecodeError")
        ELSE Returned(r.val)

(***************************************************************************)
(* str(), repr(), str.splitlines, " ".join, textwrap.fill, iteration.      *)
(***************************************************************************)
RECURSIVE IntToStr(_)
IntToStr(n) == IF n < 10 THEN <<Digits[n + 1]>> ELSE IntToStr(n \div 10) \o <<Digits[(n % 10) + 1]>>

RECURSIVE Join(_, _)
Join(parts, sep) ==
    IF Len(parts) = 0 THEN <<>>
    ELSE IF Len(parts) = 1 THEN parts[1]
    ELSE parts[1] \o sep \o Join(Tail(parts), sep)

Contains(s, c) == \E i \in 1..Len(s) : s[i] = c

\* repr of a str: single quotes, unless it holds a single and no double quote
RECURSIVE EscapeStr(_, _)
EscapeStr(s, q) ==
    IF Len(s) = 0 THEN <<>>
    ELSE (IF Head(s) = "\\" THEN <<"\\", "\\">>
          ELSE IF Head(s) = q THEN <<"\\", q>>
          ELSE IF Head(s) = NL THEN <<"\\", "n">>
          ELSE <<Head(s)>>) \o EscapeStr(Tail(s), q)
ReprStr(s) ==
    LET q == IF Contains(s, "'") /\ ~Contains(s, DQ) THEN DQ ELSE "'"
    IN  <<q>> \o EscapeStr(s, q) \o <<q>>

RECURSIVE PyRepr(_)
PyRepr(v) ==
    CASE v.t = "str" -> ReprStr(v.s)
      [] v.t = "int" -> IntToStr(v.n)
      [] v.t = "None" -> <<"N","o","n","e">>
      [] v.t = "bool" -> IF v.b THEN <<"T","r","u","e">> ELSE <<"F","a","l","s","e">>
      [] v.t = "list" ->
           <<"[">> \o Join([i \in 1..Len(v.xs) |-> PyRepr(v.xs[i])], <<",", " ">>) \o <<"]">>
      [] v.t = "dict" ->
           <<"{">> \o Join([i \in 1..Len(v.items) |->
                             ReprStr(v.items[i].k) \o <<":", " ">> \o PyRepr(v.items[i].v)],
                           <<",", " ">>) \o <<"}">>

\* str(v), also what an f-string "{v}" gives
PyStr(v) == IF v.t = "str" THEN v.s ELSE PyRepr(v)

\* s.splitlines(): the lines of s without their line breaks (\n, \r, \r\n);
\* no empty last line after a final line break
BreakEnds(s) ==
    {i \in 1..Len(s) : s[i] = NL \/ (s[i] = "\r" /\ ~(i < Len(s) /\ s[i + 1] = NL))}
BreakStart(s, i) == IF s[i] = NL /\ i > 1 /\ s[i - 1] = "\r" THEN i - 1 ELSE i
Sorted(S) == [k \in 1..Cardinality(S) |-> CHOOSE i \in S : Cardinality({j \in S : j <= i}) = k]
splitlines(s) ==
    LET e == Sorted(BreakEnds(s))
        n == Len(e)
        last == IF n = 0 THEN 0 ELSE e[n]
        lines == [k \in 1..n |->
                    SubSeq(s, IF k = 1 THEN 1 ELSE e[k - 1] + 1, BreakStart(s, e[k]) - 1)]
    IN  IF last < Len(s) THEN Append(lines, SubSeq(s, last + 1, Len(s))) ELSE lines

\* " ".join(reasoning.splitlines())
reasoning_clean(s) == Join(splitlines(s), <<" ">>)

RECURSIVE RStrip(_)
RStrip(s) == IF Len(s) > 0 /\ IsWs(s[Len(s)]) THEN RStrip(SubSeq(s, 1, Len(s) - 1)) ELSE s

\* textwrap.fill(text, width=110) of a text shorter than the width: every
\* whitespace character becomes a space and trailing whitespace is dropped
textwrap_fill(s) == RStrip([i \in 1..Len(s) |-> IF IsWs(s[i]) THEN " " ELSE s[i]])

\* for q in v: the values a for loop sees, or TypeError
Iterate(v) ==
    CASE v.t = "list" -> Returned(v.xs)
      [] v.t = "str" -> Returned([i \in 1..Len(v.s) |-> Str(<<v.s[i]>>)])
      [] v.t = "dict" -> Returned([i \in 1..Len(v.items) |-> Str(v.items[i].k)])
      [] OTHER -> Raised("TypeError")

(***************************************************************************)
(* analyze (src/audit_mvp.py 43-60): the parsing of the model's reply.     *)
(***************************************************************************)
\* the exception classes `except Exception` catches
ExceptionClasses == {"JSONDecodeError", "ValueError", "TypeError", "RecursionError"}

\* variant: a fallback that does not carry the reply
Fallback_without_raw(raw) == Dict(<<Item(K_error, Str(S_CouldNotParse))>>)

Fallback(raw) == Dict(<<Item(K_error, Str(S_CouldNotParse)), Item(K_raw, Str(raw))>>)

\* variant: no try/except around the deserialization
analyze_parse_uncaught(raw) ==
    LET json_match == re_search(raw)
    IN  IF json_match.found
        THEN json_loads(json_match.group)
        ELSE Returned(Fallback(raw))

analyze_parse(raw) ==
    LET json_match == re_search(raw)
    IN  IF json_match.found
        THEN LET r == json_loads(json_match.group)
             IN  IF r.exc = "None" THEN r
                 ELSE IF r.exc \in ExceptionClasses THEN Returned(Fallback(raw))
                 ELSE r
        ELSE Returned(Fallback(raw))

(***************************************************************************)
(* sanitize_filename and the output paths.                                 *)
(***************************************************************************)
WordChars ==
    {"a","b","c","d","e","f","g","h","i","j","k","l","m","n","o","p","q","r","s","t",
     "u","v","w","x","y","z","A","B","C","D","E","F","G","H","I","J","K","L","M","N",
     "O","P","Q","R","S","T","U","V","W","X","Y","Z","0","1","2","3","4","5","6","7",
     "8","9","_"}

\* re.sub(r'[^\w\-_. ]', '_', name)
sanitize_filename(name) ==
    [i \in 1..Len(name) |->
        IF name[i] \in WordChars \cup {"-", "_", ".", " "} THEN name[i] ELSE "_"]

\* f"audit_{sanitized_name}.pdf"
out_file(website_url) ==
    <<"a","u","d","i","t","_">> \o sanitize_filename(website_url) \o <<".","p","d","f">>

\* website_url.split("//")[-1]
RECURSIVE AfterLastDoubleSlash(_, _, _)
AfterLastDoubleSlash(s, i, start) ==
    IF i > Len(s) THEN SubSeq(s, start, Len(s))
    ELSE IF i + 1 <= Len(s) /\ s[i] = "/" /\ s[i + 1] = "/"
         THEN AfterLastDoubleSlash(s, i + 2, i + 2)
    ELSE AfterLastDoubleSlash(s, i + 1, start)

\* x.split("/")[0]
BeforeFirstSlash(s) ==
    IF Contains(s, "/") THEN SubSeq(s, 1, Min(Positions(s, "/")) - 1) ELSE s

\* re.sub(r"[^\w\-]", "_", website_url.split("//")[-1].split("/")[0])
safe_site_name(website_url) ==
    LET host == BeforeFirstSlash(AfterLastDoubleSlash(website_url, 1, 1))
    IN  [i \in 1..Len(host) |-> IF host[i] \in WordChars \cup {"-"} THEN host[i] ELSE "_"]

\* tempfile.gettempdir() of the host
temp_dir == <<"/","t","m","p">>

\* os.path.join(temp_dir, f"{safe_site_name}_audit.pdf")
pdf_path(website_url) ==
    temp_dir \o <<"/">> \o safe_site_name(website_url) \o <<"_","a","u","d","i","t",".","p","d","f">>

(***************************************************************************)
(* build_pdf (src/audit_mvp.py 80-207).                                    *)
(***************************************************************************)
grade_colors ==
    (<<"A","+">> :> <<68, 206, 27>>) @@ (<<"A">> :> <<68, 206, 27>>) @@
    (<<"A","-">> :> <<187, 219, 68>>) @@ (<<"B","+">> :> <<187, 219, 68>>) @@
    (<<"B">> :> <<187, 219, 68>>) @@
    (<<"B","-">> :> <<247, 227, 121>>) @@ (<<"C","+">> :> <<247, 227, 121>>) @@
    (<<"C">> :> <<247, 227, 121>>) @@
    (<<"C","-">> :> <<242, 161, 52>>) @@ (<<"D","+">> :> <<242, 161, 52>>) @@
    (<<"D">> :> <<242, 161, 52>>) @@
    (<<"F">> :> <<229, 31, 31>>)

\* the colour set_text_color is given when the grade is no key of the table
neutral_color == <<28, 28, 28>>

\* variant: the table is looked up by the letter of the grade alone
grade_color_by_letter(grade) ==
    IF grade.t \in {"list", "dict"} THEN Raised("TypeError")
    ELSE IF grade.t = "str" /\ Len(grade.s) > 0 /\ <<grade.s[1]>> \in DOMAIN grade_colors
         THEN Returned(grade_colors[<<grade.s[1]>>])
    ELSE Returned(neutral_color)

\* grade_colors.get(grade, (28, 28, 28)); a list or dict is unhashable
grade_color(grade) ==
    IF grade.t \in {"list", "dict"} THEN Raised("TypeError")
    ELSE IF grade.t = "str" /\ grade.s \in DOMAIN grade_colors
         THEN Returned(grade_colors[grade.s])
    ELSE Returned(neutral_color)

\* variant: a value that is no mapping gets an empty grade
section_fields_blank_grade(details) ==
    IF details.t = "dict"
    THEN [grade |-> DictGet(details, K_grade, Str(S_NA)),
          reasoning |-> DictGet(details, K_reasoning, Str(<<>>)),
          quick_wins |-> DictGet(details, K_quick_wins, List(<<>>))]
    ELSE [grade |-> Str(<<>>),
          reasoning |-> Str(PyStr(details)),
          quick_wins |-> List(<<>>)]

\* lines 141-148: what is drawn for one section of the report
section_fields(details) ==
    IF details.t = "dict"
    THEN [grade |-> DictGet(details, K_grade, Str(S_NA)),
          reasoning |-> DictGet(details, K_reasoning, Str(<<>>)),
          quick_wins |-> DictGet(details, K_quick_wins, List(<<>>))]
    ELSE [grade |-> Str(S_NA),
          reasoning |-> Str(PyStr(details)),
          quick_wins |-> List(<<>>)]

\* lines 186-201: the wrapped bullet lines of a section
quick_wins_block(quick_wins) ==
    IF ~Truthy(quick_wins) THEN Returned(<<>>)
    ELSE LET it == Iterate(quick_wins)
         IN  IF it.exc # "None" THEN it
             ELSE Returned([i \in 1..Len(it.val) |->
                              textwrap_fill(<<"-", " ">> \o PyStr(it.val[i]))])

\* lines 140-201, one pass of the loop.  cell_takes_any: whether the PDF
\* library's cell() draws a grade that is not a str (the library decides)
draw_section(section, details, cell_takes_any) ==
    LET f == section_fields(details)
        color == grade_color(f.grade)
        block == quick_wins_block(f.quick_wins)
    IN  IF color.exc # "None" THEN color
        ELSE IF f.grade.t # "str" /\ ~cell_takes_any THEN Raised("LibraryError")
        ELSE IF f.reasoning.t # "str" THEN Raised("AttributeError")
        ELSE IF block.exc # "None" THEN block
        ELSE Returned([section |-> section,
                       title |-> section \o <<" ", "-", " ">>,
                       grade |-> f.grade,
                       color |-> color.val,
                       reasoning |-> f.reasoning,
                       text |-> reasoning_clean(f.reasoning.s),
                       quick_wins |-> f.quick_wins,
                       bullets |-> block.val])

RECURSIVE draw_sections(_, _, _, _)
draw_sections(items, i, cell_takes_any, drawn) ==
    IF i > Len(items) THEN Returned(drawn)
    ELSE LET d == draw_section(items[i].k, items[i].v, cell_takes_any)
         IN  IF d.exc # "None" THEN d
             ELSE draw_sections(items, i + 1, cell_takes_any, Append(drawn, d.val))

\* the parameters build_pdf declares (lines 80-82)
build_pdf_params ==
    {"audit", "website_url", "header_image", "heading_font", "body_font", "icon_paths"}

\* build_pdf(audit, website_url, **kwargs): the call, the document drawn and
\* the file name it is written to and that is returned
build_pdf(audit, website_url, kwargs, cell_takes_any) ==
    IF ~(kwargs \subseteq build_pdf_params) THEN Raised("TypeError")
    ELSE LET d == draw_sections(audit.items, 1, cell_takes_any, <<>>)
         IN  IF d.exc # "None" THEN d
             ELSE Returned([path |-> out_file(website_url), doc |-> d.val])

(***************************************************************************)
(* The on-screen report of app.py (lines 64-77).                           *)
(***************************************************************************)
screen_section(section, details) ==
    IF details.t = "dict"
    THEN LET qw == DictGet(details, K_quick_wins, None)
             it == IF Truthy(qw) THEN Iterate(Lookup(details, K_quick_wins))
                   ELSE Returned(<<>>)
         IN  IF it.exc # "None" THEN it
             ELSE Returned(
                   [section |-> section,
                    heading |-> section \o <<" ", EN_DASH, " ", "G","r","a","d","e",":"," ">>
                                  \o PyStr(DictGet(details, K_grade, Str(S_NA))),
                    has_grade |-> TRUE,
                    grade |-> DictGet(details, K_grade, Str(S_NA)),
                    reasoning |-> DictGet(details, K_reasoning, Str(S_NoReasoning)),
                    quick_wins |-> IF Truthy(qw) THEN qw ELSE List(<<>>),
                    bullets |-> [i \in 1..Len(it.val) |->
                                   <<"-", " ">> \o PyStr(it.val[i])]])
    ELSE Returned([section |-> section,
                   heading |-> section,
                   has_grade |-> FALSE,
                   grade |-> None,
                   reasoning |-> details,
                   quick_wins |-> List(<<>>),
                   bullets |-> <<>>])

RECURSIVE screen_sections(_, _, _)
screen_sections(items, i, shown) ==
    IF i > Len(items) THEN Returned(shown)
    ELSE LET d == screen_section(items[i].k, items[i].v)
         IN  IF d.exc # "None" THEN d
             ELSE screen_sections(items, i + 1, Append(shown, d.val))

(***************************************************************************)
(* Inputs: the URL typed or passed, the model's reply (prose before a body, *)
(* the body, prose after it), the outcome of the two network calls and the *)
(* command-line flags.                                                     *)
(***************************************************************************)
Q(s) == <<DQ>> \o s \o <<DQ>>
Member(k, vtext) == Q(k) \o <<":">> \o vtext
Object(members) == <<LBRACE>> \o Join(members, <<",">>) \o <<RBRACE>>
Array(elems) == <<"[">> \o Join(elems, <<",">>) \o <<"]">>
Section(k, members) == Member(k, Object(members))

ProseChars == {"x", LBRACE, RBRACE, NL}
Prose == UNION {[1..n -> ProseChars] : n \in 0..MaxProse}

\* a reply with all four rubric keys
B_full ==
    Object(<<Section(K_Brand, <<Member(K_grade, Q(<<"A">>)),
                                Member(K_reasoning, Q(<<"o","k">>)),
                                Member(K_quick_wins, Array(<<Q(<<"w">>), Q(<<"v"," ">>)>>))>>),
             Section(K_Content, <<Member(K_grade, Q(<<"B","+">>)),
                                  Member(K_reasoning, Q(<<"m">>)),
                                  Member(K_quick_wins, Array(<<>>))>>),
             Section(K_Website, <<Member(K_grade, Q(<<"Z">>)),
                                  Member(K_reasoning, Q(<<>>))>>),
             Section(K_Marketing, <<Member(K_grade, Q(<<"F">>)),
                                    Member(K_reasoning, Q(<<"n">>))>>)>>)
Brand(members) == Object(<<Section(K_Brand, members)>>)
R_x == Member(K_reasoning, Q(<<"x">>))
B_prose == <<"n","o"," ","j","s","o","n">>

Bodies ==
    { B_full,
      \* valid objects without the rubric keys
      Object(<<>>),
      Object(<<Member(<<"a">>, <<"1">>)>>),
      Object(<<Member(<<"a">>, Object(<<Member(<<"b">>, Q(<<RBRACE>>))>>))>>),
      Object(<<Member(K_error, Q(<<"e">>)), Member(K_raw, Q(<<"r">>))>>),
      \* sections that lack keys
      Brand(<<Member(K_grade, Q(<<"A">>))>>),
      Brand(<<R_x>>),
      Brand(<<>>),
      \* sections whose values have other JSON types
      Brand(<<Member(K_reasoning, <<"1">>)>>),
      Brand(<<Member(K_reasoning, L_null)>>),
      Brand(<<Member(K_grade, <<"7">>), R_x>>),
      Brand(<<Member(K_grade, Array(<<>>)), R_x>>),
      Brand(<<R_x, Member(K_quick_wins, <<"5">>)>>),
      Brand(<<R_x, Member(K_quick_wins, Q(<<"a","b">>))>>),
      Brand(<<R_x, Member(K_quick_wins, Object(<<Member(<<"k">>, <<"1">>)>>))>>),
      Brand(<<R_x, Member(K_quick_wins, Array(<<<<"1">>, L_null, Q(<<"q">>)>>))>>),
      \* sections that are no mapping
      Object(<<Member(K_Brand, Q(<<"s">>))>>),
      Object(<<Member(K_Brand, <<"4","2">>)>>),
      Object(<<Member(K_Brand, Array(<<Q(<<"a">>), L_true>>))>>),
      \* replies that are no JSON
      <<>>,
      B_prose,
      <<LBRACE, "x", RBRACE>>,
      <<LBRACE, DQ, "a", DQ, ":", RBRACE>>,
      <<LBRACE, DQ, "a", DQ, ":", "1">>,
      <<DQ, "a", DQ, ":", "1", RBRACE>> }

\* replies whose two sections carry the grades g1 and g2
GradeInputs == DOMAIN grade_colors \cup {<<"Z">>, S_NA, <<"a">>, <<>>}
GradeBody(g1, g2) ==
    Object(<<Section(K_Brand, <<Member(K_grade, Q(g1)), R_x>>),
             Section(K_Content, <<Member(K_grade, Q(g2)), R_x>>)>>)

S_http == <<"h","t","t","p",":","/","/">>
S_https == <<"h","t","t","p","s",":","/","/">>
U_site == S_http \o <<"a",".","b">>
U_page == S_https \o <<"a",".","b","/","c">>
U_other == S_http \o <<"c","-","d">>
U_bare == <<"a",".","b">>
URLs == {U_site, U_page, U_other, U_bare, <<>>}
Nets == {"ok", "fetch_fails", "model_fails"}

\* the flags of main (lines 231-238) with their defaults
S_audit_pdf == <<"a","u","d","i","t",".","p","d","f">>
S_model == <<"g","p","t","-","4","o","-","m","i","n","i">>
CliArgs ==
    [out : {Str(S_audit_pdf), Str(<<"o",".","p","d","f">>)},
     logo : {None, Str(<<"l",".","p","n","g">>)},
     heading_font : {None, Str(<<"h",".","t","t","f">>)},
     body_font : {None, Str(<<"b",".","t","t","f">>)},
     model : {Str(S_model), Str(<<"m">>)}]
DefaultArgs ==
    [out |-> Str(S_audit_pdf), logo |-> None, heading_font |-> None,
     body_font |-> None, model |-> Str(S_model)]

Input(surface, url, pre, body, suf, net, args) ==
    [surface |-> surface, url |-> url, pre |-> pre, body |-> body, suf |-> suf,
     net |-> net, args |-> args]
OffInput == Input("off", <<>>, <<>>, <<>>, <<>>, "ok", DefaultArgs)

PipelineInputs ==
    {Input("app", U_site, pre, b, suf, "ok", DefaultArgs) :
        pre \in Prose, b \in Bodies, suf \in Prose}
    \cup {Input("app", u, <<>>, b, <<>>, n, DefaultArgs) :
            u \in URLs, b \in {B_full, B_prose}, n \in Nets}
    \cup {Input("app", U_site, <<>>, GradeBody(g1, g2), <<>>, "ok", DefaultArgs) :
            g1 \in GradeInputs, g2 \in GradeInputs}
    \cup {Input("cli", u, <<>>, b, <<>>, n, a) :
            u \in {U_site, U_bare}, b \in {B_full, B_prose}, n \in Nets, a \in CliArgs}

RaceInputs ==
    {Input("app", u, <<>>, b, <<>>, "ok", DefaultArgs) :
        u \in {U_site, U_page, U_other}, b \in {B_full, B_prose}}
    \cup {Input("cli", U_site, <<>>, B_full, <<>>, "ok", DefaultArgs)}

(***************************************************************************)
(* State.                                                                  *)
(***************************************************************************)
Procs == 1..NumSessions

VARIABLES
    inp,        \* inp[p]: the input of run p
    pc,         \* pc[p]: where run p is
    raw,        \* raw[p]: resp.output_text, the model's reply
    report,     \* report[p]: what generate_audit_report returned
    screen,     \* screen[p]: the sections shown on the page
    stdout,     \* stdout[p]: the lines printed
    pdf_file,   \* pdf_file[p]: what build_pdf returned
    files,      \* the files on disk: records [path, writer, doc]
    delivered,  \* delivered[p]: the bytes handed to the download button
    exc         \* exc[p]: the exception that ended run p, or "None"

vars == <<inp, pc, raw, report, screen, stdout, pdf_file, files, delivered, exc>>

NoBytes == [writer |-> 0, doc |-> <<>>]

Start(inputs) ==
    /\ inp = inputs
    /\ pc = [p \in Procs |-> IF inputs[p].surface = "off" THEN "off" ELSE "start"]
    /\ raw = [p \in Procs |-> <<>>]
    /\ report = [p \in Procs |-> None]
    /\ screen = [p \in Procs |-> <<>>]
    /\ stdout = [p \in Procs |-> <<>>]
    /\ pdf_file = [p \in Procs |-> <<>>]
    /\ files = {}
    /\ delivered = [p \in Procs |-> NoBytes]
    /\ exc = [p \in Procs |-> "None"]

\* one run of the pipeline on any input
Init ==
    \E i \in PipelineInputs :
        Start([p \in Procs |-> IF p = 1 THEN i ELSE OffInput])

\* several runs, side by side
InitRace == \E inputs \in [Procs -> RaceInputs] : Start(inputs)

(***************************************************************************)
(* Operations.                                                             *)
(***************************************************************************)
Reply(i) == i.pre \o i.body \o i.suf

\* requests.get raises MissingSchema or InvalidSchema for a URL that does not
\* start with http:// or https://
HasScheme(url) == MatchAt(url, 1, S_http) \/ MatchAt(url, 1, S_https)

Crash(p, e) ==
    /\ pc' = [pc EXCEPT ![p] = "crashed"]
    /\ exc' = [exc EXCEPT ![p] = e]

\* generate_audit_report(website_url): scrape_website, then analyze.  On
\* the page an empty URL is refused before the call (app.py 58-59).
GenerateAudit(p) ==
    /\ pc[p] = "start"
    /\ LET i == inp[p]
           r == analyze_parse(Reply(i))
       IN  IF i.surface = "app" /\ Len(i.url) = 0
           THEN /\ pc' = [pc EXCEPT ![p] = "rejected"]
                /\ UNCHANGED <<raw, report, exc>>
           ELSE IF i.net = "fetch_fails" \/ ~HasScheme(i.url)
           THEN Crash(p, "RequestException") /\ UNCHANGED <<raw, report>>
           ELSE IF i.net = "model_fails"
           THEN Crash(p, "APIError") /\ UNCHANGED <<raw, report>>
           ELSE IF r.exc # "None"
           THEN Crash(p, r.exc) /\ raw' = [raw EXCEPT ![p] = Reply(i)]
                                /\ UNCHANGED report
           ELSE /\ raw' = [raw EXCEPT ![p] = Reply(i)]
                /\ report' = [report EXCEPT ![p] = r.val]
                /\ pc' = [pc EXCEPT ![p] = "analyzed"]
                /\ UNCHANGED exc
    /\ UNCHANGED <<inp, screen, stdout, pdf_file, files, delivered>>

\* app.py 64-77 and 109-110: the report on the page, or the error banner
RenderScreen(p) ==
    /\ pc[p] = "analyzed"
    /\ inp[p].surface = "app"
    /\ LET r == screen_sections(report[p].items, 1, <<>>)
       IN  IF ~(Truthy(report[p]) /\ report[p].t = "dict")
           THEN /\ pc' = [pc EXCEPT ![p] = "invalid"]
                /\ UNCHANGED <<screen, exc>>
           ELSE IF r.exc # "None"
           THEN Crash(p, r.exc) /\ UNCHANGED screen
           ELSE /\ screen' = [screen EXCEPT ![p] = r.val]
                /\ pc' = [pc EXCEPT ![p] = "shown"]
                /\ UNCHANGED exc
    /\ UNCHANGED <<inp, raw, report, stdout, pdf_file, files, delivered>>

\* main, line 241
S_GeneratingPdf ==
    <<"G","e","n","e","r","a","t","i","n","g"," ","P","D","F",".",".",".">>
PrintProgress(p) ==
    /\ pc[p] = "analyzed"
    /\ inp[p].surface = "cli"
    /\ stdout' = [stdout EXCEPT ![p] = Append(@, S_GeneratingPdf)]
    /\ pc' = [pc EXCEPT ![p] = "printed"]
    /\ UNCHANGED <<inp, raw, report, screen, pdf_file, files, delivered, exc>>

\* the second argument and the keywords of the two calls of build_pdf:
\* app.py 88-94 and main 242-248
Target(i) == IF i.surface = "app" THEN pdf_path(i.url) ELSE i.args.out.s
CallKeywords(i) ==
    IF i.surface = "app" THEN {"header_image", "heading_font", "body_font"}
    ELSE {"logo_path", "heading_font", "body_font"}

\* pdf.output(out_file): the file is created, or replaced
Output(p, f) ==
    {g \in files : g.path # f.path} \cup {[path |-> f.path, writer |-> p, doc |-> f.doc]}

\* variant: every run writes to a file name of its own
BuildPdf_unique(p) ==
    /\ \/ inp[p].surface = "app" /\ pc[p] = "shown"
       \/ inp[p].surface = "cli" /\ pc[p] = "printed"
    /\ \E cell_takes_any \in BOOLEAN :
         LET r == build_pdf(report[p], Target(inp[p]), CallKeywords(inp[p]), cell_takes_any)
         IN  IF r.exc # "None"
             THEN Crash(p, r.exc) /\ UNCHANGED <<files, pdf_file>>
             ELSE LET own == [path |-> r.val.path \o <<".">> \o IntToStr(p), doc |-> r.val.doc]
                  IN  /\ files' = Output(p, own)
                      /\ pdf_file' = [pdf_file EXCEPT ![p] = own.path]
                      /\ pc' = [pc EXCEPT ![p] = "written"]
                      /\ UNCHANGED exc
    /\ UNCHANGED <<inp, raw, report, screen, stdout, delivered>>

BuildPdf(p) ==
    /\ \/ inp[p].surface = "app" /\ pc[p] = "shown"
       \/ inp[p].surface = "cli" /\ pc[p] = "printed"
    /\ \E cell_takes_any \in BOOLEAN :
         LET r == build_pdf(report[p], Target(inp[p]), CallKeywords(inp[p]), cell_takes_any)
         IN  IF r.exc # "None"
             THEN Crash(p, r.exc) /\ UNCHANGED <<files, pdf_file>>
             ELSE /\ files' = Output(p, r.val)
                  /\ pdf_file' = [pdf_file EXCEPT ![p] = r.val.path]
                  /\ pc' = [pc EXCEPT ![p] = "written"]
                  /\ UNCHANGED exc
    /\ UNCHANGED <<inp, raw, report, screen, stdout, delivered>>

\* app.py 97-107: the file build_pdf named is read back and offered
Download(p) ==
    /\ pc[p] = "written"
    /\ inp[p].surface = "app"
    /\ IF \E f \in files : f.path = pdf_file[p]
       THEN LET f == CHOOSE f \in files : f.path = pdf_file[p]
            IN  /\ delivered' = [delivered EXCEPT ![p] = [writer |-> f.writer, doc |-> f.doc]]
                /\ pc' = [pc EXCEPT ![p] = "delivered"]
       ELSE /\ pc' = [pc EXCEPT ![p] = "pdf_failed"]
            /\ UNCHANGED delivered
    /\ UNCHANGED <<inp, raw, report, screen, stdout, pdf_file, files, exc>>

Next ==
    \E p \in Procs :
        \/ GenerateAudit(p)
        \/ RenderScreen(p)
        \/ PrintProgress(p)
        \/ BuildPdf(p)
        \/ Download(p)

Spec == Init /\ [][Next]_vars
SpecRace == InitRace /\ [][Next]_vars

(***************************************************************************)
(* Properties.                                                             *)
(***************************************************************************)
\* run p got a reply from the model: analyze went on to parse it
Replied(p) ==
    /\ pc[p] \notin {"off", "start", "rejected"}
    /\ ~(pc[p] = "crashed" /\ exc[p] \in {"RequestException", "APIError"})

\* the reply has no brace-delimited region, or the region does not deserialize
ParseFails(text) ==
    \/ ~re_search(text).found
    \/ json_loads(re_search(text).group).exc # "None"

\* the text is one valid JSON object
IsJsonObject(text) ==
    /\ Len(text) > 0
    /\ text[1] = LBRACE
    /\ json_loads(text).exc = "None"

\* the file at the path build_pdf returned to run p
FileOf(p) == CHOOSE f \in files : f.path = pdf_file[p]
Finished(p) == pc[p] \in {"written", "delivered"}
AppRun(p) == inp[p].surface = "app"

----------------------------------------------------------------------------
\* C1: whenever the reply has no brace-delimited region, or its region fails
\* to deserialize, analyze returns (it does not raise) a mapping with exactly
\* the keys error and raw, error a non-empty string, raw the reply unchanged.
C1_FallbackOnUnparsableReply ==
    \A p \in Procs :
        (Replied(p) /\ ParseFails(raw[p])) =>
            /\ report[p].t = "dict"
            /\ Keys(report[p]) = <<K_error, K_raw>>
            /\ Lookup(report[p], K_error).t = "str"
            /\ Len(Lookup(report[p], K_error).s) > 0
            /\ Lookup(report[p], K_raw) = Str(raw[p])

\* C1 witness: a reply with a brace-delimited region that does not
\* deserialize has been answered with the fallback.
C1_Witness ==
    \E p \in Procs :
        /\ pc[p] = "analyzed"
        /\ re_search(raw[p]).found
        /\ ParseFails(raw[p])
        /\ Lookup(report[p], K_raw) = Str(raw[p])

----------------------------------------------------------------------------
\* C2 as stated: for a reply that is one valid JSON object between any prose
\* before it and any prose after it, analyze returns exactly that object.
C2_AnyProse ==
    \A p \in Procs :
        (Replied(p) /\ IsJsonObject(inp[p].body)) =>
            report[p] = json_loads(inp[p].body).val

\* C2 amended: for a reply that is one valid JSON object between prose that
\* has no "{" before it and no "}" after it, analyze returns exactly that
\* object.
C2_ProseWithoutBraces ==
    \A p \in Procs :
        (/\ Replied(p)
         /\ IsJsonObject(inp[p].body)
         /\ ~Contains(inp[p].pre, LBRACE)
         /\ ~Contains(inp[p].suf, RBRACE)) =>
            report[p] = json_loads(inp[p].body).val

\* C2 witness: an object with nested braces, with prose on both sides, has
\* been extracted.
C2_Witness ==
    \E p \in Procs :
        /\ pc[p] = "analyzed"
        /\ inp[p].body = B_full
        /\ Len(inp[p].pre) > 0
        /\ Len(inp[p].suf) > 0
        /\ report[p] = json_loads(B_full).val
        /\ KeySet(report[p]) = RubricKeys

----------------------------------------------------------------------------
\* C3 as stated: every value analyze returns either has all four rubric
\* keys or has exactly the keys error and raw.
C3_TwoShapes ==
    \A p \in Procs :
        (Replied(p) /\ report[p].t = "dict") =>
            \/ RubricKeys \subseteq KeySet(report[p])
            \/ KeySet(report[p]) = {K_error, K_raw}

\* C3 amended: every value analyze returns is a mapping: the fallback, with
\* exactly the keys error and raw, when parsing failed, and otherwise the
\* object of the reply as it is, whatever its keys (the four rubric keys are
\* there only if the reply has them).
C3_FallbackOrParsedObject ==
    \A p \in Procs :
        Replied(p) =>
            /\ report[p].t = "dict"
            /\ ParseFails(raw[p]) => KeySet(report[p]) = {K_error, K_raw}
            /\ ~ParseFails(raw[p]) =>
                  report[p] = json_loads(re_search(raw[p]).group).val

\* C3 witness: a parsed object without any rubric key has been returned.
C3_Witness ==
    \E p \in Procs :
        /\ pc[p] = "analyzed"
        /\ ~ParseFails(raw[p])
        /\ KeySet(report[p]) \cap RubricKeys = {}
        /\ KeySet(report[p]) # {K_error, K_raw}

----------------------------------------------------------------------------
\* C4: when build_pdf has returned, the path it returned is the target path
\* it was given, and the file written is at that path.
C4_FileAtTargetPath ==
    \A p \in Procs :
        Finished(p) =>
            /\ pdf_file[p] = Target(inp[p])
            /\ \E f \in files : f.path = Target(inp[p])

----------------------------------------------------------------------------
\* C5: on the page, a reply that does not parse does not abort the run: no
\* step of it raises or ends in an error banner and, once build_pdf has
\* returned, the file it named exists and every section drawn has grade
\* "N/A" in the neutral colour, the stringified value as reasoning and no
\* quick wins.
C5_FallbackIsRendered ==
    \A p \in Procs :
        (AppRun(p) /\ Replied(p) /\ ParseFails(raw[p])) =>
            /\ pc[p] \notin {"crashed", "invalid", "pdf_failed"}
            /\ Finished(p) =>
                 /\ \E f \in files : f.path = pdf_file[p]
                 /\ Len(FileOf(p).doc) = Len(report[p].items)
                 /\ \A i \in 1..Len(FileOf(p).doc) :
                      LET d == FileOf(p).doc[i]
                      IN  /\ d.section = report[p].items[i].k
                          /\ d.grade = Str(S_NA)
                          /\ d.color = <<28, 28, 28>>
                          /\ d.reasoning = Str(PyStr(report[p].items[i].v))
                          /\ d.quick_wins = List(<<>>)
                          /\ d.bullets = <<>>

\* C5 witness: a run whose reply was plain prose has delivered a document
\* of two sections.
C5_Witness ==
    \E p \in Procs :
        /\ AppRun(p)
        /\ pc[p] = "delivered"
        /\ raw[p] = B_prose
        /\ Len(delivered[p].doc) = 2
        /\ delivered[p].doc[2].reasoning = Str(B_prose)

----------------------------------------------------------------------------
Buckets ==
    { {<<"A","+">>, <<"A">>},
      {<<"A","-">>, <<"B","+">>, <<"B">>},
      {<<"B","-">>, <<"C","+">>, <<"C">>},
      {<<"C","-">>, <<"D","+">>, <<"D">>},
      {<<"F">>} }
GradeTokens == UNION Buckets
Bucket(g) == CHOOSE b \in Buckets : g \in b

\* every section is a mapping with a string grade, a string reasoning and no
\* quick wins
OnlyGradesVary(r) ==
    /\ r.t = "dict"
    /\ \A i \in 1..Len(r.items) :
         LET v == r.items[i].v
         IN  /\ v.t = "dict"
             /\ DictGet(v, K_grade, Str(S_NA)).t = "str"
             /\ DictGet(v, K_reasoning, None).t = "str"
             /\ ~HasKey(v, K_quick_wins)

\* C6: in every document drawn, two sections whose grades are among the
\* twelve tokens have the same colour exactly if the grades are in the same
\* bucket, a grade outside the twelve has the colour (28, 28, 28), and no
\* run is ended by a string grade.
C6_GradeColours ==
    /\ \A f \in files :
         \A i, j \in 1..Len(f.doc) :
            LET a == f.doc[i]
                b == f.doc[j]
            IN  (a.grade.t = "str" /\ b.grade.t = "str") =>
                  /\ (a.grade.s \in GradeTokens /\ b.grade.s \in GradeTokens) =>
                        ((a.color = b.color) <=> (Bucket(a.grade.s) = Bucket(b.grade.s)))
                  /\ a.grade.s \notin GradeTokens => a.color = <<28, 28, 28>>
                  /\ a.grade.s \in GradeTokens => a.color # <<28, 28, 28>>
    /\ \A p \in Procs :
         (AppRun(p) /\ Replied(p) /\ OnlyGradesVary(report[p])) => pc[p] # "crashed"

\* C6 witness: a document with the grades A- and B in one colour has been
\* written.
C6_Witness ==
    \E f \in files :
        /\ Len(f.doc) = 2
        /\ f.doc[1].grade = Str(<<"A","-">>)
        /\ f.doc[2].grade = Str(<<"B">>)
        /\ f.doc[1].color = f.doc[2].color

----------------------------------------------------------------------------
\* C7: a command-line run whose fetch and model call succeed is not ended
\* by an exception: it goes on to the end of build_pdf, with the file
\* written.
C7_CliRunProducesPdf ==
    \A p \in Procs :
        (inp[p].surface = "cli" /\ inp[p].net = "ok" /\ HasScheme(inp[p].url)) =>
            /\ pc[p] # "crashed"
            /\ pc[p] = "printed" => stdout[p] = <<S_GeneratingPdf>>

----------------------------------------------------------------------------
\* the page and the document show the same sections, in the same order, with
\* the same grade, reasoning and quick wins
SameContent(shown, doc) ==
    /\ Len(shown) = Len(doc)
    /\ \A i \in 1..Len(shown) :
         /\ shown[i].section = doc[i].section
         /\ shown[i].has_grade => shown[i].grade = doc[i].grade
         /\ PyStr(shown[i].reasoning) = PyStr(doc[i].reasoning)
         /\ Len(shown[i].bullets) = Len(doc[i].bullets)
         /\ \A k \in 1..Len(shown[i].bullets) :
              textwrap_fill(shown[i].bullets[k]) = doc[i].bullets[k]

\* C8: for every report, the page and the PDF show the same content.
C8_ScreenAndPdfAgree ==
    \A p \in Procs :
        (AppRun(p) /\ pc[p] = "written" /\ FileOf(p).writer = p) =>
            SameContent(screen[p], FileOf(p).doc)

----------------------------------------------------------------------------
\* the document build_pdf draws from a report it accepts
DocOf(r) == draw_sections(r.items, 1, TRUE, <<>>).val

\* C9: two audits of one URL from the page are given one output path, where
\* there is one file, and nothing ties the bytes an audit delivers to the
\* document it drew itself: they are the document of whichever audit wrote
\* that path last before the read.
C9_NoMutualExclusion ==
    /\ \A a, b \in Procs :
         (/\ a # b /\ AppRun(a) /\ AppRun(b) /\ inp[a].url = inp[b].url
          /\ Finished(a) /\ Finished(b)) =>
            /\ pdf_file[a] = pdf_file[b]
            /\ Cardinality({f \in files : f.path = pdf_file[a]}) = 1
    /\ \A a \in Procs :
         pc[a] = "delivered" =>
            LET w == delivered[a].writer
            IN  /\ w \in Procs
                /\ AppRun(w)
                /\ Finished(w)
                /\ pdf_file[w] = pdf_file[a]
                /\ delivered[a].doc = DocOf(report[w])

\* C9 witness: the first audit has delivered the document that the second
\* audit drew from another reply.
C9_Witness ==
    \E a, b \in Procs :
        /\ a # b
        /\ inp[a].url = inp[b].url
        /\ pc[a] = "delivered"
        /\ delivered[a].writer = b
        /\ raw[a] = B_full
        /\ raw[b] = B_prose
        /\ Len(delivered[a].doc) = 2

----------------------------------------------------------------------------
\* C10: on the page, no report that analyze returned and that was shown
\* makes build_pdf raise.
C10_BuildPdfNeverRaises ==
    \A p \in Procs :
        (AppRun(p) /\ Len(screen[p]) > 0) =>
            ~(pc[p] = "crashed" /\ exc[p] \in {"AttributeError", "TypeError"})

====
